---- MODULE Spec2Model ----
(***************************************************************************)
(* Model of core/container/kubernetescontroller (KubernetesVM): the name   *)
(* resolver GetVMName and the Start / Stop / Deploy / Destroy operations   *)
(* against the Deployments API of the orchestrator.                        *)
(*                                                                         *)
(* Go strings are byte sequences: a string is modelled as a sequence of    *)
(* byte values (0..255).  regexp.ReplaceAllString walks the string rune by *)
(* rune (UTF-8 decoding, an undecodable byte being a rune of width 1), so  *)
(* the decoding is modelled as well.                                       *)
(***************************************************************************)
EXTENDS Integers, Sequences, FiniteSets, TLC

VARIABLES
    namespaceCfg,   \* viper "peer.kubernetes.namespace": Unset or a namespace
    deployments,    \* the orchestrator: set of <<namespace, name>> that exist
    callers,        \* the goroutines that call into the KubernetesVM
    pc,             \* per caller: position inside the current call
    cur,            \* per caller: the call in progress (inputs, remote calls, result)
    prev,           \* per caller: the last call that returned
    nin,            \* resolver input: [ccid, format]
    nout,           \* resolver output: NotCalled or [name, err]
    clientEnv,      \* what NewKubernetesClient reads: configuration and environment
    clientOut       \* what NewKubernetesClient returned: NotAcquired or its result

vars == <<namespaceCfg, deployments, callers, pc, cur, prev, nin, nout, clientEnv, clientOut>>

-----------------------------------------------------------------------------
(* Bounds *)

MaxLen == 2         \* longest enumerated base name, in bytes
MaxIdLen == 1       \* longest enumerated network id / peer id, in bytes

-----------------------------------------------------------------------------
(* Byte strings *)

Dash == 45          \* "-"
Colon == 58         \* ":"
Underscore == 95    \* "_"

\* Bytes the enumerated base names are built from: 'a' 'Z' '-' '_' '.' ':' ' '
\* and the two bytes of U+00E9 (0xC3 0xA9); digits and '!' come in with the
\* example strings below.  Ids are built from 'n' and ':'.
Alphabet == {97, 90, 45, 95, 46, 58, 32, 195, 169}
IdAlphabet == {110, 58}

Strings(A, n) == UNION {[1..k -> A] : k \in 0..n}

Str_net1 == <<110, 101, 116, 49>>
Str_peer1 == <<112, 101, 101, 114, 49>>
Str_mycc == <<109, 121, 99, 99>>
Str_my_cc_bang == <<109, 121, 32, 99, 99, 33>>

-----------------------------------------------------------------------------
(* GetVMName *)

Nil == "nil"                        \* the nil error
ErrFormat == "format-error"         \* whatever error the format function returns

\* Variant: the class also lets ':' through.
InClass_colon(b) ==
    \/ b \in 97..122
    \/ b \in 65..90
    \/ b \in 48..58
    \/ b \in {45, 95, 46}

\* vmRegExp = "[^a-zA-Z0-9-_.]": the bytes the negated class does NOT match.
\* After the range 0-9 the '-' is a literal, so the class is the three ranges
\* and the literals '-', '_' and '.'.
InClass(b) ==
    \/ b \in 97..122
    \/ b \in 65..90
    \/ b \in 48..57
    \/ b \in {45, 95, 46}

Continuation(b) == b \in 128..191

\* Second-byte range that utf8 accepts after lead byte b.
AcceptLo(b) == IF b = 224 THEN 160 ELSE IF b = 240 THEN 144 ELSE 128
AcceptHi(b) == IF b = 237 THEN 159 ELSE IF b = 244 THEN 143 ELSE 191

\* Encoded size announced by lead byte b (0: b cannot start a rune).
LeadSize(b) ==
    IF b < 128 THEN 1
    ELSE IF b \in 194..223 THEN 2
    ELSE IF b \in 224..239 THEN 3
    ELSE IF b \in 240..244 THEN 4
    ELSE 0

\* utf8.DecodeRuneInString: width in bytes of the first rune of non-empty s;
\* an invalid or truncated encoding is a rune (RuneError) of width 1.
RuneWidth(s) ==
    LET n == LeadSize(s[1]) IN
    IF n <= 1 THEN 1
    ELSE IF Len(s) < n THEN 1
    ELSE IF ~(s[2] >= AcceptLo(s[1]) /\ s[2] <= AcceptHi(s[1])) THEN 1
    ELSE IF n >= 3 /\ ~Continuation(s[3]) THEN 1
    ELSE IF n = 4 /\ ~Continuation(s[4]) THEN 1
    ELSE n

\* vmRegExp matches the first rune of s: every rune but an ASCII byte of the class.
MatchesFirst(s) == ~(RuneWidth(s) = 1 /\ InClass(s[1]))

RECURSIVE ReplaceAllString_collapse(_)
\* Variant: a run of matching runes becomes one '-' (the pattern with a '+').
ReplaceAllString_collapse(s) ==
    IF s = <<>> THEN <<>>
    ELSE LET w == RuneWidth(s)
             rest == SubSeq(s, w + 1, Len(s))
         IN  IF MatchesFirst(s)
             THEN IF rest # <<>> /\ MatchesFirst(rest)
                  THEN ReplaceAllString_collapse(rest)
                  ELSE <<Dash>> \o ReplaceAllString_collapse(rest)
             ELSE <<s[1]>> \o ReplaceAllString_collapse(rest)

\* Variant: only the first matching rune is replaced.
ReplaceAllString_first(s) ==
    IF \E k \in 1..Len(s) : ~InClass(s[k])
    THEN LET k == CHOOSE j \in 1..Len(s) : ~InClass(s[j]) /\ \A i \in 1..(j - 1) : InClass(s[i])
             w == RuneWidth(SubSeq(s, k, Len(s)))
         IN  SubSeq(s, 1, k - 1) \o <<Dash>> \o SubSeq(s, k + w, Len(s))
    ELSE s

RECURSIVE ReplaceAllString(_)
\* vmRegExp.ReplaceAllString(s, "-"): each matching rune becomes one '-'.
ReplaceAllString(s) ==
    IF s = <<>> THEN <<>>
    ELSE LET w == RuneWidth(s)
             rest == SubSeq(s, w + 1, Len(s))
         IN  IF MatchesFirst(s)
             THEN <<Dash>> \o ReplaceAllString(rest)
             ELSE <<s[1]>> \o ReplaceAllString(rest)

\* fmt.Sprintf("%s-%s", a, b)
Sprintf2(a, b) == a \o <<Dash>> \o b

\* fmt.Sprintf("%s-%s-%s", a, b, c)
Sprintf3(a, b, c) == a \o <<Dash>> \o b \o <<Dash>> \o c

\* Variant: the peer id is left out when both ids are set.
PrefixedName_networkOnly(ccid) ==
    IF ccid.NetworkID # <<>>
    THEN Sprintf2(ccid.NetworkID, ccid.Name)
    ELSE IF ccid.PeerID # <<>>
    THEN Sprintf2(ccid.PeerID, ccid.Name)
    ELSE ccid.Name

\* The name before any format function or replacement.
PrefixedName(ccid) ==
    IF ccid.NetworkID # <<>> /\ ccid.PeerID # <<>>
    THEN Sprintf3(ccid.NetworkID, ccid.PeerID, ccid.Name)
    ELSE IF ccid.NetworkID # <<>>
    THEN Sprintf2(ccid.NetworkID, ccid.Name)
    ELSE IF ccid.PeerID # <<>>
    THEN Sprintf2(ccid.PeerID, ccid.Name)
    ELSE ccid.Name

\* The format functions a caller may pass: none ("nil"), one that appends
\* ":1" (bytes the grammar rejects), one that returns the empty string, and
\* one that fails after producing ":" followed by its argument.
Formats == {"nil", "tag", "blank", "fail"}

ApplyFormat(format, name) ==
    CASE format = "tag"   -> [name |-> name \o <<Colon, 49>>, err |-> Nil]
      [] format = "blank" -> [name |-> <<>>, err |-> Nil]
      [] format = "fail"  -> [name |-> <<Colon>> \o name, err |-> ErrFormat]

\* Variant: the replacement is applied to the output of a failed format function too.
GetVMName_sanitizeOnError(ccid, format) ==
    LET name == PrefixedName(ccid)
        formatted == IF format # "nil" THEN ApplyFormat(format, name)
                     ELSE [name |-> name, err |-> Nil]
    IN  [name |-> ReplaceAllString(formatted.name), err |-> formatted.err]

GetVMName(ccid, format) ==
    LET name == PrefixedName(ccid)
        formatted == IF format # "nil" THEN ApplyFormat(format, name)
                     ELSE [name |-> name, err |-> Nil]
    IN  IF formatted.err # Nil
        THEN [name |-> formatted.name, err |-> formatted.err]
        ELSE [name |-> ReplaceAllString(formatted.name), err |-> Nil]

\* strings.Replace(s, ":", "_", -1)
ReplaceColons(s) == [i \in 1..Len(s) |-> IF s[i] = Colon THEN Underscore ELSE s[i]]

-----------------------------------------------------------------------------
(* The orchestrator and the configuration *)

NamespaceDefault == "default"           \* apiv1.NamespaceDefault
Unset == "<unset>"                      \* peer.kubernetes.namespace is not set
NamespaceCfgs == {Unset, "default", "fabric"}
Namespaces == {"default", "fabric"}

Foreground == "Foreground"              \* metav1.DeletePropagationForeground
NoPolicy == "-"

ErrClient == "client-unavailable"       \* error of getClientFnc
ErrNotFound == "not-found"              \* delete of a name that does not exist
ErrAlreadyExists == "already-exists"    \* create of a name that exists
ErrDeleteFailed == "delete-failed"      \* the delete request failed to reach the orchestrator
ErrCreateFailed == "create-failed"      \* the create request failed or was rejected for another cause
Cancelled == "cancelled"                \* the error a cancelled call would return

\* Start: the namespace the deployment is created in.
TargetNamespace(cfg) == IF cfg # Unset THEN cfg ELSE NamespaceDefault

\* Deployments(ns).Delete(name, opts): fault = the request fails in transport.
Delete(deps, ns, name, fault) ==
    IF fault THEN [err |-> ErrDeleteFailed, deployments |-> deps]
    ELSE IF <<ns, name>> \in deps
    THEN [err |-> Nil, deployments |-> deps \ {<<ns, name>>}]
    ELSE [err |-> ErrNotFound, deployments |-> deps]

\* Deployments(ns).Create(deployment): fault = the request fails in transport
\* or is rejected for a cause other than the name.
Create(deps, ns, name, fault) ==
    IF fault THEN [err |-> ErrCreateFailed, deployments |-> deps]
    ELSE IF <<ns, name>> \in deps
    THEN [err |-> ErrAlreadyExists, deployments |-> deps]
    ELSE [err |-> Nil, deployments |-> deps \cup {<<ns, name>>}]

\* Variant: the delete leaves the dependents to the garbage collector.
stopInternal_background(deps, id, fault) ==
    LET r == Delete(deps, NamespaceDefault, id, fault)
    IN  [err |-> r.err,
         deployments |-> r.deployments,
         call |-> [verb |-> "delete", namespace |-> NamespaceDefault,
                   name |-> id, policy |-> "Background", err |-> r.err]]

\* stopInternal(ctxt, client, id, ...): one foreground delete in the default
\* namespace; ctxt, timeout, dontkill and dontremove are not used.
stopInternal(deps, id, fault) ==
    LET r == Delete(deps, NamespaceDefault, id, fault)
    IN  [err |-> r.err,
         deployments |-> r.deployments,
         call |-> [verb |-> "delete", namespace |-> NamespaceDefault,
                   name |-> id, policy |-> Foreground, err |-> r.err]]

-----------------------------------------------------------------------------
(* NewKubernetesClient *)

defaultQPS == 1000000
defaultBurst == 1000000

ErrInCluster == "in-cluster-config-error"       \* error of rest.InClusterConfig
ErrLoadConfig == "load-config-error"            \* error of ClientConfig()
ErrNewForConfig == "new-for-config-error"       \* error of kubernetes.NewForConfig
ErrServerVersion == "server-version-error"      \* error of Discovery().ServerVersion

\* peer.kubernetes.endpoint, peer.kubernetes.kubeconfig, the home directory,
\* and which of the four external steps succeed.
ClientEnvs ==
    [endpoint : {"", "https://k8s:6443"},
     kubeconfig : {"", "/etc/kube.conf"},
     home : {"", "/root"},
     inClusterOK : BOOLEAN,
     loadOK : BOOLEAN,
     newOK : BOOLEAN,
     versionOK : BOOLEAN]

NoEnv ==
    [endpoint |-> "", kubeconfig |-> "", home |-> "", inClusterOK |-> FALSE,
     loadOK |-> FALSE, newOK |-> FALSE, versionOK |-> FALSE]

NoConfig == [source |-> "none", path |-> "", server |-> "", QPS |-> 0, Burst |-> 0]

NotAcquired == [client |-> FALSE, err |-> "not-called", config |-> NoConfig, steps |-> <<>>]

\* filepath.Join(home, ".kube", "config")
JoinKubeConfig(home) == home \o "/.kube/config"

\* Variant: the in-cluster configuration is taken when either argument is empty.
buildConfigFromFlags_either(masterURL, kubeconfigPath, env) ==
    IF kubeconfigPath = "" \/ masterURL = ""
    THEN [cfg |-> [NoConfig EXCEPT !.source = "in-cluster"],
          err |-> IF env.inClusterOK THEN Nil ELSE ErrInCluster]
    ELSE [cfg |-> [NoConfig EXCEPT !.source = "explicit", !.path = kubeconfigPath,
                                   !.server = masterURL],
          err |-> IF env.loadOK THEN Nil ELSE ErrLoadConfig]

\* buildConfigFromFlags(masterURL, kubeconfigPath): cfg records which source
\* was consulted, also when it failed.
buildConfigFromFlags(masterURL, kubeconfigPath, env) ==
    IF kubeconfigPath = "" /\ masterURL = ""
    THEN [cfg |-> [NoConfig EXCEPT !.source = "in-cluster"],
          err |-> IF env.inClusterOK THEN Nil ELSE ErrInCluster]
    ELSE [cfg |-> [NoConfig EXCEPT !.source = "explicit", !.path = kubeconfigPath,
                                   !.server = masterURL],
          err |-> IF env.loadOK THEN Nil ELSE ErrLoadConfig]

NewKubernetesClient(env) ==
    LET apiserverHost == env.endpoint
        kubeConfig == IF env.kubeconfig = "" /\ env.home # ""
                      THEN JoinKubeConfig(env.home)
                      ELSE env.kubeconfig
        built == buildConfigFromFlags(apiserverHost, kubeConfig, env)
        cfg == [built.cfg EXCEPT !.QPS = defaultQPS, !.Burst = defaultBurst]
    IN  IF built.err # Nil
        THEN [client |-> FALSE, err |-> built.err, config |-> built.cfg,
              steps |-> <<"config">>]
        ELSE IF ~env.newOK
        THEN [client |-> FALSE, err |-> ErrNewForConfig, config |-> cfg,
              steps |-> <<"config", "client">>]
        ELSE IF ~env.versionOK
        THEN [client |-> FALSE, err |-> ErrServerVersion, config |-> cfg,
              steps |-> <<"config", "client", "version">>]
        ELSE [client |-> TRUE, err |-> Nil, config |-> cfg,
              steps |-> <<"config", "client", "version">>]

-----------------------------------------------------------------------------
(* The callers and their calls *)

Procs == {1, 2}

\* The identities the lifecycle operations are called with: "n" / "p" / "c:1"
\* and "" / "" / "d".
Identities ==
    { [NetworkID |-> <<110>>, PeerID |-> <<112>>, Name |-> <<99, Colon, 49>>],
      [NetworkID |-> <<>>, PeerID |-> <<>>, Name |-> <<100>>] }

NoCcid == [NetworkID |-> <<>>, PeerID |-> <<>>, Name |-> <<>>]

NoCall ==
    [op |-> "none", ccid |-> NoCcid, acquired |-> 0, clientErr |-> Nil,
     id |-> <<>>, cancelled |-> FALSE, calls |-> <<>>, result |-> Nil]

\* getClientFnc(): one acquisition, which succeeds or fails.
getClientFnc(ok) == [tries |-> 1, err |-> IF ok THEN Nil ELSE ErrClient]

\* Variant: the client error is not checked before the cleanup delete.
StartEntry_unchecked(ccid, clientOK) ==
    LET client == getClientFnc(clientOK)
        resolved == GetVMName(ccid, "nil")
    IN  [pc |-> "start_delete",
         cur |-> [NoCall EXCEPT !.op = "Start", !.ccid = ccid,
                                !.acquired = client.tries, !.clientErr = client.err,
                                !.id = resolved.name]]

\* Start up to the cleanup delete: acquire the client, resolve the name.
StartEntry(ccid, clientOK) ==
    LET client == getClientFnc(clientOK)
        resolved == GetVMName(ccid, "nil")
        call == [NoCall EXCEPT !.op = "Start", !.ccid = ccid,
                               !.acquired = client.tries, !.clientErr = client.err]
    IN  IF client.err # Nil
        THEN [pc |-> "done", cur |-> [call EXCEPT !.result = client.err]]
        ELSE IF resolved.err # Nil
        THEN [pc |-> "done", cur |-> [call EXCEPT !.result = resolved.err]]
        ELSE [pc |-> "start_delete", cur |-> [call EXCEPT !.id = resolved.name]]

\* Variant: an error of the cleanup delete ends Start.
StartAfterCleanup_propagate(delErr) ==
    IF delErr # Nil THEN [pc |-> "done", result |-> delErr]
    ELSE [pc |-> "start_create", result |-> Nil]

\* Start after the cleanup delete returned delErr: the outcome is discarded.
StartAfterCleanup(delErr) == [pc |-> "start_create", result |-> Nil]

\* Variant: a failed create is tried again.
StartAfterCreate_retry(createErr) ==
    IF createErr # Nil THEN [pc |-> "start_create", result |-> Nil]
    ELSE [pc |-> "done", result |-> createErr]

\* Start after the create returned createErr.
StartAfterCreate(createErr) == [pc |-> "done", result |-> createErr]

\* Variant: ':' is replaced in the name before GetVMName's own replacement.
StopEntry_rawName(ccid, clientOK) ==
    LET client == getClientFnc(clientOK)
        call == [NoCall EXCEPT !.op = "Stop", !.ccid = ccid,
                               !.acquired = client.tries, !.clientErr = client.err]
    IN  IF client.err # Nil
        THEN [pc |-> "done", cur |-> [call EXCEPT !.result = client.err]]
        ELSE [pc |-> "stop_delete",
              cur |-> [call EXCEPT !.id = ReplaceAllString(ReplaceColons(PrefixedName(ccid)))]]

\* Stop up to the delete: resolve the name, acquire the client, replace ':'.
StopEntry(ccid, clientOK) ==
    LET resolved == GetVMName(ccid, "nil")
        client == getClientFnc(clientOK)
        call == [NoCall EXCEPT !.op = "Stop", !.ccid = ccid]
        acquiredCall == [call EXCEPT !.acquired = client.tries, !.clientErr = client.err]
    IN  IF resolved.err # Nil
        THEN [pc |-> "done", cur |-> [call EXCEPT !.result = resolved.err]]
        ELSE IF client.err # Nil
        THEN [pc |-> "done", cur |-> [acquiredCall EXCEPT !.result = client.err]]
        ELSE [pc |-> "stop_delete",
              cur |-> [acquiredCall EXCEPT !.id = ReplaceColons(resolved.name)]]

\* Variant: not-found counts as success.
StopAfterDelete_idempotent(delErr) ==
    [pc |-> "done", result |-> IF delErr = ErrNotFound THEN Nil ELSE delErr]

\* Stop after the delete returned delErr.
StopAfterDelete(delErr) == [pc |-> "done", result |-> delErr]

\* Deploy and Destroy: return nil.
DeployBody(ccid) == [NoCall EXCEPT !.op = "Deploy", !.ccid = ccid]
\* Variant: Destroy acquires a client first and returns its error.
DestroyBody_client(ccid) ==
    [NoCall EXCEPT !.op = "Destroy", !.ccid = ccid, !.acquired = 1, !.result = ErrClient]

DestroyBody(ccid) == [NoCall EXCEPT !.op = "Destroy", !.ccid = ccid]

InFlight == {"start_delete", "start_create", "stop_delete"}

-----------------------------------------------------------------------------
(* Actions *)

Start(p, ccid, clientOK) ==
    /\ pc[p] = "idle"
    /\ LET e == StartEntry(ccid, clientOK)
       IN  /\ pc' = [pc EXCEPT ![p] = e.pc]
           /\ cur' = [cur EXCEPT ![p] = e.cur]
    /\ UNCHANGED <<namespaceCfg, deployments, callers, prev, nin, nout, clientEnv, clientOut>>

StartDeleteReturn(p, fault) ==
    /\ pc[p] = "start_delete"
    /\ LET r == stopInternal(deployments, cur[p].id, fault)
           a == StartAfterCleanup(r.err)
       IN  /\ deployments' = r.deployments
           /\ pc' = [pc EXCEPT ![p] = a.pc]
           /\ cur' = [cur EXCEPT ![p].calls = Append(@, r.call),
                                 ![p].result = a.result]
    /\ UNCHANGED <<namespaceCfg, callers, prev, nin, nout, clientEnv, clientOut>>

StartCreateReturn(p, fault) ==
    /\ pc[p] = "start_create"
    /\ LET namespace == TargetNamespace(namespaceCfg)
           r == Create(deployments, namespace, cur[p].id, fault)
           a == StartAfterCreate(r.err)
       IN  /\ deployments' = r.deployments
           /\ pc' = [pc EXCEPT ![p] = a.pc]
           /\ cur' = [cur EXCEPT
                         ![p].calls = Append(@, [verb |-> "create", namespace |-> namespace,
                                                 name |-> cur[p].id, policy |-> NoPolicy,
                                                 err |-> r.err]),
                         ![p].result = a.result]
    /\ UNCHANGED <<namespaceCfg, callers, prev, nin, nout, clientEnv, clientOut>>

Stop(p, ccid, clientOK) ==
    /\ pc[p] = "idle"
    /\ LET e == StopEntry(ccid, clientOK)
       IN  /\ pc' = [pc EXCEPT ![p] = e.pc]
           /\ cur' = [cur EXCEPT ![p] = e.cur]
    /\ UNCHANGED <<namespaceCfg, deployments, callers, prev, nin, nout, clientEnv, clientOut>>

StopDeleteReturn(p, fault) ==
    /\ pc[p] = "stop_delete"
    /\ LET r == stopInternal(deployments, cur[p].id, fault)
           a == StopAfterDelete(r.err)
       IN  /\ deployments' = r.deployments
           /\ pc' = [pc EXCEPT ![p] = a.pc]
           /\ cur' = [cur EXCEPT ![p].calls = Append(@, r.call),
                                 ![p].result = a.result]
    /\ UNCHANGED <<namespaceCfg, callers, prev, nin, nout, clientEnv, clientOut>>

Deploy(p, ccid) ==
    /\ pc[p] = "idle"
    /\ pc' = [pc EXCEPT ![p] = "done"]
    /\ cur' = [cur EXCEPT ![p] = DeployBody(ccid)]
    /\ UNCHANGED <<namespaceCfg, deployments, callers, prev, nin, nout, clientEnv, clientOut>>

Destroy(p, ccid, force, noprune) ==
    /\ pc[p] = "idle"
    /\ pc' = [pc EXCEPT ![p] = "done"]
    /\ cur' = [cur EXCEPT ![p] = DestroyBody(ccid)]
    /\ UNCHANGED <<namespaceCfg, deployments, callers, prev, nin, nout, clientEnv, clientOut>>

\* The caller cancels the context of a call whose remote request is in flight.
Cancel(p) ==
    /\ pc[p] \in InFlight
    /\ ~cur[p].cancelled
    /\ cur' = [cur EXCEPT ![p].cancelled = TRUE]
    /\ UNCHANGED <<namespaceCfg, deployments, callers, pc, prev, nin, nout, clientEnv, clientOut>>

\* The call returns to its caller.
Return(p) ==
    /\ pc[p] = "done"
    /\ pc' = [pc EXCEPT ![p] = "idle"]
    /\ prev' = [prev EXCEPT ![p] = cur[p]]
    /\ cur' = [cur EXCEPT ![p] = NoCall]
    /\ UNCHANGED <<namespaceCfg, deployments, callers, nin, nout, clientEnv, clientOut>>

NoInput == [ccid |-> NoCcid, format |-> "nil"]
NotCalled == [name |-> <<>>, err |-> "not-called"]

InitCalls ==
    /\ namespaceCfg \in NamespaceCfgs
    /\ deployments = {}
    /\ pc = [p \in Procs |-> "idle"]
    /\ cur = [p \in Procs |-> NoCall]
    /\ prev = [p \in Procs |-> NoCall]
    /\ nin = NoInput
    /\ nout = NotCalled
    /\ clientEnv = NoEnv
    /\ clientOut = NotAcquired

\* One caller: calls follow one another.
Init ==
    /\ InitCalls
    /\ callers = {1}

Next ==
    \/ \E p \in callers, ccid \in Identities, clientOK \in BOOLEAN : Start(p, ccid, clientOK)
    \/ \E p \in callers, fault \in BOOLEAN : StartDeleteReturn(p, fault)
    \/ \E p \in callers, fault \in BOOLEAN : StartCreateReturn(p, fault)
    \/ \E p \in callers, ccid \in Identities, clientOK \in BOOLEAN : Stop(p, ccid, clientOK)
    \/ \E p \in callers, fault \in BOOLEAN : StopDeleteReturn(p, fault)
    \/ \E p \in callers, ccid \in Identities : Deploy(p, ccid)
    \/ \E p \in callers, ccid \in Identities, force \in BOOLEAN, noprune \in BOOLEAN :
           Destroy(p, ccid, force, noprune)
    \/ \E p \in callers : Cancel(p)
    \/ \E p \in callers : Return(p)

Spec == Init /\ [][Next]_vars

-----------------------------------------------------------------------------
(* The resolver on its own: GetVMName applied to enumerated inputs *)

NetworkIDs == Strings(IdAlphabet, MaxIdLen) \cup {Str_net1}
PeerIDs == Strings(IdAlphabet, MaxIdLen) \cup {Str_peer1}
Names == Strings(Alphabet, MaxLen) \cup {Str_mycc, Str_my_cc_bang}

ResolveInputs ==
    [ccid : [NetworkID : NetworkIDs, PeerID : PeerIDs, Name : Names],
     format : Formats]

Resolve ==
    /\ nout = NotCalled
    /\ nout' = GetVMName(nin.ccid, nin.format)
    /\ UNCHANGED <<namespaceCfg, deployments, callers, pc, cur, prev, nin, clientEnv, clientOut>>

InitName ==
    /\ namespaceCfg = Unset
    /\ deployments = {}
    /\ callers = {}
    /\ pc = [p \in Procs |-> "idle"]
    /\ cur = [p \in Procs |-> NoCall]
    /\ prev = [p \in Procs |-> NoCall]
    /\ nin \in ResolveInputs
    /\ nout = NotCalled
    /\ clientEnv = NoEnv
    /\ clientOut = NotAcquired

\* GetVMName applied to the name it returned, taken as a base name with empty ids.
ResolveAgain ==
    /\ nout # NotCalled
    /\ nout.err = Nil
    /\ LET again == [ccid |-> [NetworkID |-> <<>>, PeerID |-> <<>>, Name |-> nout.name],
                     format |-> "nil"]
       IN  /\ nin # again
           /\ nin' = again
           /\ nout' = GetVMName(again.ccid, again.format)
    /\ UNCHANGED <<namespaceCfg, deployments, callers, pc, cur, prev, clientEnv, clientOut>>

NextName == Resolve \/ ResolveAgain

SpecName == InitName /\ [][NextName]_vars

-----------------------------------------------------------------------------
(* Properties of the lifecycle operations *)

LastCall(c) == c.calls[Len(c.calls)]

\* The call c met no client fault and no transport fault.
NoFault(c) ==
    /\ c.clientErr = Nil
    /\ \A i \in 1..Len(c.calls) : c.calls[i].err \notin {ErrDeleteFailed, ErrCreateFailed}

\* C1: a Start that follows a Start of the same identity, both without client
\* or transport fault and with no other call in between, returns success.
C1_SecondStartSucceeds ==
    \A p \in callers :
        ( /\ pc[p] = "done"
          /\ cur[p].op = "Start"
          /\ prev[p].op = "Start"
          /\ prev[p].ccid = cur[p].ccid
          /\ NoFault(prev[p])
          /\ NoFault(cur[p]) )
        => cur[p].result = Nil

\* C2: a Start that acquired its client issues the create whatever the cleanup
\* delete returned, and returns exactly what the create returned; no Start
\* returns an error of the delete.
C2_StartReturnsCreateResult ==
    \A p \in callers :
        (pc[p] = "done" /\ cur[p].op = "Start")
        => /\ cur[p].result \notin {ErrNotFound, ErrDeleteFailed}
           /\ cur[p].clientErr = Nil
              => /\ Len(cur[p].calls) = 2
                 /\ cur[p].calls[1].verb = "delete"
                 /\ cur[p].calls[2].verb = "create"
                 /\ cur[p].result = cur[p].calls[2].err

C2_Witness ==
    \E p \in callers :
        /\ pc[p] = "done"
        /\ cur[p].op = "Start"
        /\ Len(cur[p].calls) = 2
        /\ cur[p].calls[1].err = ErrDeleteFailed
        /\ cur[p].result = Nil

\* C3: the step in which Stop's delete returns ends the call with the delete's
\* error as the result (success only if the delete succeeded); when the
\* request reached the orchestrator and no deployment of that name existed,
\* the result is the not-found error.
C3_StopReturnsDeleteError ==
    [][\A p \in callers :
          (pc[p] = "stop_delete" /\ cur'[p].calls # cur[p].calls)
          => /\ pc'[p] = "done"
             /\ Len(cur'[p].calls) = 1
             /\ cur'[p].result = cur'[p].calls[1].err
             /\ cur'[p].result = Nil =>
                    /\ cur'[p].calls[1].err = Nil
                    /\ <<NamespaceDefault, cur[p].id>> \in deployments
             /\ ( /\ cur'[p].calls[1].err # ErrDeleteFailed
                  /\ \A ns \in Namespaces : <<ns, cur[p].id>> \notin deployments )
                => cur'[p].result = ErrNotFound
      ]_vars

C3_Witness ==
    \E p \in callers :
        /\ pc[p] = "done"
        /\ cur[p].op = "Stop"
        /\ prev[p] = NoCall
        /\ cur[p].result = ErrNotFound

\* C4: every step of a Start or Stop whose client acquisition failed ends the
\* call with the client error, after one acquisition and no remote call, and
\* leaves the deployments as they were.
C4_ClientFailureIsTerminal ==
    [][\A p \in callers :
          (cur'[p] # cur[p] /\ cur'[p].clientErr # Nil)
          => /\ pc[p] = "idle"
             /\ pc'[p] = "done"
             /\ cur'[p].op \in {"Start", "Stop"}
             /\ cur'[p].result = cur'[p].clientErr
             /\ cur'[p].acquired = 1
             /\ cur'[p].calls = <<>>
             /\ deployments' = deployments
      ]_vars

C4_Witness ==
    \E p \in callers :
        /\ pc[p] = "done"
        /\ cur[p].op = "Start"
        /\ prev[p].op = "Stop"
        /\ prev[p].clientErr = ErrClient
        /\ cur[p].clientErr = ErrClient
        /\ deployments # {}

\* C5: when Start's cleanup delete succeeded and its create fails, the step in
\* which the create returns ends the call with the create's error after these
\* two remote calls, and no deployment of that name exists afterwards.
C5_NoRollback ==
    [][\A p \in callers :
          ( /\ pc[p] = "start_create"
            /\ cur'[p].calls # cur[p].calls
            /\ cur[p].calls[1].err = Nil
            /\ LastCall(cur'[p]).err # Nil )
          => /\ pc'[p] = "done"
             /\ Len(cur'[p].calls) = 2
             /\ cur'[p].result = cur'[p].calls[2].err
             /\ \A ns \in Namespaces : <<ns, cur[p].id>> \notin deployments'
      ]_vars

C5_Witness ==
    \E p \in callers :
        /\ pc[p] = "done"
        /\ cur[p].op = "Start"
        /\ Len(cur[p].calls) = 2
        /\ cur[p].calls[1].err = Nil
        /\ cur[p].result = ErrCreateFailed
        /\ \A ns \in Namespaces : <<ns, cur[p].id>> \notin deployments

\* C6: a Deploy or Destroy call is one step that returns success, acquires no
\* client, issues no remote call and leaves the deployments unchanged.
C6_DeployDestroyNoOp ==
    [][\A p \in callers :
          (cur'[p] # cur[p] /\ cur'[p].op \in {"Deploy", "Destroy"})
          => /\ pc[p] = "idle"
             /\ pc'[p] = "done"
             /\ cur'[p].result = Nil
             /\ cur'[p].acquired = 0
             /\ cur'[p].calls = <<>>
             /\ deployments' = deployments
      ]_vars

C6_Witness ==
    \E p \in callers :
        /\ pc[p] = "done"
        /\ cur[p].op = "Destroy"
        /\ prev[p].op = "Deploy"
        /\ deployments # {}

\* C7: a call whose context was cancelled while its remote request was in
\* flight returns the Cancelled error.
C7_CancelledCallReturnsCancelled ==
    \A p \in callers :
        (pc[p] = "done" /\ cur[p].cancelled) => cur[p].result = Cancelled

-----------------------------------------------------------------------------
(* Properties of the resolver *)

\* The naming grammar [A-Za-z0-9\-_.], byte by byte.
Grammar == (65..90) \cup (97..122) \cup (48..57) \cup {45, 95, 46}

InGrammar(s) == \A i \in 1..Len(s) : s[i] \in Grammar

RECURSIVE Runes(_)
\* The characters (runes) of s, each as the bytes that encode it.
Runes(s) ==
    IF s = <<>> THEN <<>>
    ELSE <<SubSeq(s, 1, RuneWidth(s))>> \o Runes(SubSeq(s, RuneWidth(s) + 1, Len(s)))

AllEmpty(ccid) == ccid.NetworkID = <<>> /\ ccid.PeerID = <<>> /\ ccid.Name = <<>>

Resolved == nout # NotCalled

\* C8 as stated: every name returned without error is non-empty and made of
\* grammar characters only.
C8_NameMatchesGrammarPlus ==
    (Resolved /\ nout.err = Nil) => (nout.name # <<>> /\ InGrammar(nout.name))

\* C8 amended: every name returned without error is made of grammar characters
\* only; without a format function it is empty exactly when all three fields
\* of the identity are empty.
C8_NameInGrammar ==
    (Resolved /\ nout.err = Nil)
    => /\ InGrammar(nout.name)
       /\ nin.format = "nil" => (nout.name = <<>> <=> AllEmpty(nin.ccid))

C8_Witness ==
    /\ Resolved
    /\ nin.format = "tag"
    /\ nin.ccid.Name = <<195, 169>>
    /\ nin.ccid.NetworkID = <<Colon>>
    /\ nout.err = Nil
    /\ nout.name = <<Dash, Dash, Dash, Dash, 49>>

\* C9: without a format function the name is the replacement applied to
\* networkID-peerID-baseName, networkID-baseName, peerID-baseName or baseName,
\* by which ids are non-empty; when all fields are grammar characters it is
\* that composition itself, and net1 / peer1 / mycc gives net1-peer1-mycc.
C9_PrefixRule ==
    (Resolved /\ nin.format = "nil")
    => LET n == nin.ccid.NetworkID
           q == nin.ccid.PeerID
           b == nin.ccid.Name
           expected ==
               CASE n # <<>> /\ q # <<>> -> n \o <<45>> \o q \o <<45>> \o b
                 [] n # <<>> /\ q = <<>> -> n \o <<45>> \o b
                 [] n = <<>> /\ q # <<>> -> q \o <<45>> \o b
                 [] n = <<>> /\ q = <<>> -> b
       IN  /\ nout.err = Nil
           /\ nout.name = ReplaceAllString(expected)
           /\ InGrammar(expected) => nout.name = expected
           /\ (n = Str_net1 /\ q = Str_peer1 /\ b = Str_mycc)
              => nout.name = <<110, 101, 116, 49, 45, 112, 101, 101, 114, 49, 45,
                               109, 121, 99, 99>>

C9_Witness ==
    /\ Resolved
    /\ nin.format = "nil"
    /\ nin.ccid = [NetworkID |-> Str_net1, PeerID |-> Str_peer1, Name |-> Str_mycc]
    /\ nout.name = Str_net1 \o <<45>> \o Str_peer1 \o <<45>> \o Str_mycc

\* C10: with empty ids and no format function the name has as many characters
\* as the base name; a character of the grammar stays at its position and any
\* other character, whatever its encoded width, becomes one '-'; "my cc!"
\* gives "my-cc-".
C10_OneForOne ==
    (Resolved /\ nin.format = "nil" /\ nin.ccid.NetworkID = <<>> /\ nin.ccid.PeerID = <<>>)
    => LET rs == Runes(nin.ccid.Name)
       IN  /\ Len(nout.name) = Len(rs)
           /\ \A i \in 1..Len(rs) :
                  nout.name[i] = IF Len(rs[i]) = 1 /\ rs[i][1] \in Grammar
                                 THEN rs[i][1] ELSE 45
           /\ nin.ccid.Name = Str_my_cc_bang
              => nout.name = <<109, 121, 45, 99, 99, 45>>

C10_Witness ==
    /\ Resolved
    /\ nin.format = "nil"
    /\ nin.ccid = [NetworkID |-> <<>>, PeerID |-> <<>>, Name |-> Str_my_cc_bang]
    /\ nout.name = <<109, 121, 45, 99, 99, 45>>

\* A multi-byte character becomes one '-', so the byte length shrinks.
C10_WitnessMultiByte ==
    /\ Resolved
    /\ nin.format = "nil"
    /\ nin.ccid = [NetworkID |-> <<>>, PeerID |-> <<>>, Name |-> <<195, 169>>]
    /\ nout.name = <<45>>

\* The name the prefix rule composes, before any format function.
Composed(ccid) ==
    CASE ccid.NetworkID # <<>> /\ ccid.PeerID # <<>> ->
             ccid.NetworkID \o <<45>> \o ccid.PeerID \o <<45>> \o ccid.Name
      [] ccid.NetworkID # <<>> /\ ccid.PeerID = <<>> -> ccid.NetworkID \o <<45>> \o ccid.Name
      [] ccid.NetworkID = <<>> /\ ccid.PeerID # <<>> -> ccid.PeerID \o <<45>> \o ccid.Name
      [] ccid.NetworkID = <<>> /\ ccid.PeerID = <<>> -> ccid.Name

\* C11: when the format function fails, GetVMName returns the function's error
\* and the function's output byte for byte: here ':' followed by the composed
\* name, with no character replaced.
C11_FormatErrorShortCircuits ==
    (Resolved /\ nin.format = "fail")
    => /\ nout.err = ErrFormat
       /\ nout.name = <<58>> \o Composed(nin.ccid)

C11_Witness ==
    /\ Resolved
    /\ nin.format = "fail"
    /\ nin.ccid = [NetworkID |-> <<>>, PeerID |-> <<>>, Name |-> <<32, 195>>]
    /\ nout = [name |-> <<58, 32, 195>>, err |-> ErrFormat]

\* A field made of grammar characters other than '-'.
Plain(s) == \A i \in 1..Len(s) : s[i] \in Grammar \ {45}

PlainIdentity(ccid) == Plain(ccid.NetworkID) /\ Plain(ccid.PeerID) /\ Plain(ccid.Name)

\* The two identities have the same ids empty.
SameShape(c, d) ==
    /\ (c.NetworkID = <<>>) <=> (d.NetworkID = <<>>)
    /\ (c.PeerID = <<>>) <=> (d.PeerID = <<>>)

\* C12 as stated: no other identity resolves, without a format function, to
\* the name this identity resolved to.
C12_DistinctIdentitiesDistinctNames ==
    (Resolved /\ nin.format = "nil")
    => \A n \in NetworkIDs, q \in PeerIDs, b \in Names :
           LET other == [NetworkID |-> n, PeerID |-> q, Name |-> b]
           IN  other # nin.ccid => GetVMName(other, "nil").name # nout.name

\* C12 amended: among identities whose fields are made of grammar characters
\* other than '-' and that have the same ids empty, no other identity
\* resolves to the name this identity resolved to.
C12_PlainIdentitiesDistinctNames ==
    (Resolved /\ nin.format = "nil" /\ PlainIdentity(nin.ccid))
    => \A n \in NetworkIDs :
           Plain(n) =>
           \A q \in PeerIDs :
               Plain(q) =>
               \A b \in Names :
                   LET other == [NetworkID |-> n, PeerID |-> q, Name |-> b]
                   IN  (Plain(b) /\ SameShape(other, nin.ccid) /\ other # nin.ccid)
                       => GetVMName(other, "nil").name # nout.name

C12_Witness ==
    /\ Resolved
    /\ nin.format = "nil"
    /\ nin.ccid = [NetworkID |-> <<110>>, PeerID |-> Str_peer1, Name |-> <<97, 90>>]
    /\ nout.name = <<110, 45>> \o Str_peer1 \o <<45, 97, 90>>

\* C13: resolving a returned name again, as a base name with empty ids and no
\* format function, returns that name unchanged and without error.
C13_SanitizeIdempotent ==
    [][nin' # nin => (nout'.name = nout.name /\ nout'.err = Nil)]_vars

C13_Witness ==
    /\ Resolved
    /\ nin = [ccid |-> [NetworkID |-> <<>>, PeerID |-> <<>>,
                        Name |-> <<109, 121, 45, 99, 99, 45>>],
              format |-> "nil"]
    /\ nout = [name |-> <<109, 121, 45, 99, 99, 45>>, err |-> Nil]

-----------------------------------------------------------------------------
(* Properties of the remote calls *)

\* The identity of Identities whose base name holds a ':'.
ColonIdentity == [NetworkID |-> <<110>>, PeerID |-> <<112>>, Name |-> <<99, 58, 49>>]

\* The k-th remote call of c is a foreground delete of name.
IsDelete(c, k, name) ==
    /\ c.calls[k].verb = "delete"
    /\ c.calls[k].name = name
    /\ c.calls[k].policy = Foreground

\* The k-th remote call of c is a create of name.
IsCreate(c, k, name) ==
    /\ c.calls[k].verb = "create"
    /\ c.calls[k].name = name

\* C15 as stated: every remote call, the deletes included, addresses the
\* namespace Start creates in, and a fault-free Stop that follows a successful
\* Start of the same identity succeeds and leaves no deployment of that name.
C15_NamespaceConsistency ==
    \A p \in callers :
        /\ \A i \in 1..Len(cur[p].calls) :
               cur[p].calls[i].namespace = TargetNamespace(namespaceCfg)
        /\ ( /\ pc[p] = "done"
             /\ cur[p].op = "Stop"
             /\ NoFault(cur[p])
             /\ prev[p].op = "Start"
             /\ prev[p].ccid = cur[p].ccid
             /\ prev[p].result = Nil )
           => /\ cur[p].result = Nil
              /\ \A ns \in Namespaces : <<ns, cur[p].id>> \notin deployments

\* C16: a Start that acquired its client has issued nothing before its delete
\* returns, one foreground delete of the resolved name before its create
\* returns, and that delete followed by one create of the same name when it is
\* done; a Stop that acquired its client has issued one foreground delete and
\* nothing else when it is done.
C16_OneDeleteThenOneCreate ==
    \A p \in callers :
        LET c == cur[p]
            name == ReplaceAllString(Composed(c.ccid))
        IN  /\ pc[p] \in {"start_delete", "stop_delete"} => c.calls = <<>>
            /\ pc[p] = "start_create" => (Len(c.calls) = 1 /\ IsDelete(c, 1, name))
            /\ (pc[p] = "done" /\ c.op = "Start" /\ c.clientErr = Nil)
               => (Len(c.calls) = 2 /\ IsDelete(c, 1, name) /\ IsCreate(c, 2, name))
            /\ (pc[p] = "done" /\ c.op = "Stop" /\ c.clientErr = Nil)
               => (Len(c.calls) = 1 /\ IsDelete(c, 1, c.id))

C16_Witness ==
    \E p \in callers :
        /\ pc[p] = "done"
        /\ cur[p].op = "Start"
        /\ prev[p].op = "Stop"
        /\ prev[p].result = ErrDeleteFailed
        /\ Len(cur[p].calls) = 2
        /\ cur[p].calls[1].err = Nil
        /\ cur[p].calls[2].err = Nil

\* C17: the name a Start or Stop works on is the resolved name of its
\* identity, it holds no ':', and every remote call of the operation carries
\* it; the delete of a Stop names what the create of the preceding Start of
\* the same identity named.
C17_SameDeploymentName ==
    \A p \in callers :
        LET c == cur[p]
            name == ReplaceAllString(Composed(c.ccid))
        IN  /\ (c.op \in {"Start", "Stop"} /\ c.clientErr = Nil)
               => /\ c.id = name
                  /\ \A i \in 1..Len(c.id) : c.id[i] # 58
                  /\ \A k \in 1..Len(c.calls) : c.calls[k].name = name
            /\ ( /\ c.op = "Stop"
                 /\ Len(c.calls) = 1
                 /\ prev[p].op = "Start"
                 /\ prev[p].ccid = c.ccid
                 /\ Len(prev[p].calls) = 2 )
               => c.calls[1].name = prev[p].calls[2].name

C17_Witness ==
    \E p \in callers :
        /\ pc[p] = "done"
        /\ cur[p].op = "Stop"
        /\ cur[p].ccid = ColonIdentity
        /\ cur[p].result = Nil
        /\ prev[p].op = "Start"
        /\ prev[p].ccid = ColonIdentity
        /\ prev[p].result = Nil
        /\ cur[p].calls[1].name = <<110, 45, 112, 45, 99, 45, 49>>

-----------------------------------------------------------------------------
(* Two callers, one call each, with no lock between them *)

ResolvedNames == {GetVMName(ccid, "nil").name : ccid \in Identities}

\* The orchestrator holds what earlier calls left behind: any set of
\* deployments in the namespace Start creates in.
InitConc ==
    /\ namespaceCfg \in NamespaceCfgs
    /\ deployments \in SUBSET {<<TargetNamespace(namespaceCfg), name>> : name \in ResolvedNames}
    /\ callers = Procs
    /\ pc = [p \in Procs |-> "idle"]
    /\ cur = [p \in Procs |-> NoCall]
    /\ prev = [p \in Procs |-> NoCall]
    /\ nin = NoInput
    /\ nout = NotCalled
    /\ clientEnv = NoEnv
    /\ clientOut = NotAcquired

NextConc ==
    \/ \E p \in callers, ccid \in Identities, clientOK \in BOOLEAN : Start(p, ccid, clientOK)
    \/ \E p \in callers, fault \in BOOLEAN : StartDeleteReturn(p, fault)
    \/ \E p \in callers, fault \in BOOLEAN : StartCreateReturn(p, fault)
    \/ \E p \in callers, ccid \in Identities, clientOK \in BOOLEAN : Stop(p, ccid, clientOK)
    \/ \E p \in callers, fault \in BOOLEAN : StopDeleteReturn(p, fault)

SpecConc == InitConc /\ [][NextConc]_vars

\* C18 as stated: once two fault-free Starts of one identity have both
\* returned, at least one has returned success and the deployment exists in
\* the target namespace and nowhere else.
C18_ConcurrentStartsOneSucceeds ==
    \A p \in callers, q \in callers :
        ( /\ p # q
          /\ pc[p] = "done" /\ pc[q] = "done"
          /\ cur[p].op = "Start" /\ cur[q].op = "Start"
          /\ cur[p].ccid = cur[q].ccid
          /\ NoFault(cur[p]) /\ NoFault(cur[q]) )
        => /\ cur[p].result = Nil \/ cur[q].result = Nil
           /\ \A ns \in Namespaces :
                  <<ns, cur[p].id>> \in deployments <=> ns = TargetNamespace(namespaceCfg)

\* C19: with the default namespace as the target, the step in which the
\* delete of a Stop reaches the orchestrator after a Start of the same
\* identity has returned success leaves no deployment of that identity, and
\* the Start keeps its success.
C19_StopAfterCreateLeavesNothing ==
    [][\A p \in callers, q \in callers :
          ( /\ p # q
            /\ TargetNamespace(namespaceCfg) = NamespaceDefault
            /\ pc[p] = "done"
            /\ cur[p].op = "Start"
            /\ cur[p].result = Nil
            /\ pc[q] = "stop_delete"
            /\ cur[q].ccid = cur[p].ccid
            /\ cur'[q].calls # cur[q].calls
            /\ LastCall(cur'[q]).err # ErrDeleteFailed )
          => /\ pc'[q] = "done"
             /\ pc'[p] = "done"
             /\ cur'[p].result = Nil
             /\ \A ns \in Namespaces : <<ns, cur[p].id>> \notin deployments'
      ]_vars

C19_Witness ==
    \E p \in callers, q \in callers :
        /\ pc[p] = "done"
        /\ cur[p].op = "Start"
        /\ cur[p].result = Nil
        /\ pc[q] = "done"
        /\ cur[q].op = "Stop"
        /\ cur[q].ccid = cur[p].ccid
        /\ cur[q].result = Nil
        /\ \A ns \in Namespaces : <<ns, cur[p].id>> \notin deployments

-----------------------------------------------------------------------------
(* Client acquisition on its own *)

AcquireClient ==
    /\ clientOut = NotAcquired
    /\ clientOut' = NewKubernetesClient(clientEnv)
    /\ UNCHANGED <<namespaceCfg, deployments, callers, pc, cur, prev, nin, nout, clientEnv>>

InitClient ==
    /\ namespaceCfg = Unset
    /\ deployments = {}
    /\ callers = {}
    /\ pc = [p \in Procs |-> "idle"]
    /\ cur = [p \in Procs |-> NoCall]
    /\ prev = [p \in Procs |-> NoCall]
    /\ nin = NoInput
    /\ nout = NotCalled
    /\ clientEnv \in ClientEnvs
    /\ clientOut = NotAcquired

NextClient == AcquireClient

SpecClient == InitClient /\ [][NextClient]_vars

Acquired == clientOut # NotAcquired

\* The step that builds the configuration succeeds, for the source consulted.
ConfigOK == IF clientOut.config.source = "in-cluster" THEN clientEnv.inClusterOK
            ELSE clientEnv.loadOK

\* A client is returned exactly when the three steps succeed, and otherwise
\* the error is that of the first step that failed.
ThreeSteps ==
    /\ clientOut.client <=> (ConfigOK /\ clientEnv.newOK /\ clientEnv.versionOK)
    /\ clientOut.client <=> clientOut.err = Nil
    /\ ~ConfigOK => clientOut.err \in {ErrInCluster, ErrLoadConfig}
    /\ clientOut.err = ErrInCluster <=> (clientOut.config.source = "in-cluster" /\ ~ConfigOK)
    /\ clientOut.err = ErrLoadConfig <=> (clientOut.config.source = "explicit" /\ ~ConfigOK)
    /\ (ConfigOK /\ ~clientEnv.newOK) => clientOut.err = ErrNewForConfig
    /\ (ConfigOK /\ clientEnv.newOK /\ ~clientEnv.versionOK) => clientOut.err = ErrServerVersion

====
